---- MODULE Spec2Model ----
(***************************************************************************)
(* PDFTextExtractor (src/main.py): OCR text extraction from a PDF in       *)
(* batches of pages, with a busy flag, temporary page images and a chunked *)
(* export.  Callers are threads sharing one extractor instance and one     *)
(* output directory.  A page image is represented by its page number, a    *)
(* temporary image path by its page number, and a text by a sequence of    *)
(* tokens: the token p is the text OCR reads on page p, the token SEP is   *)
(* the separator "\n\n".                                                   *)
(***************************************************************************)
EXTENDS Integers, Sequences, FiniteSets, TLC

\* ---------------------------------------------------------------- bounds
MaxDocPages == 1
MaxCalls == 2
MaxRemoveFailures == 1
MaxDocPagesSeq == 12
MaxPagesArgSeq == 12
MaxStartPageSeq == 2
MaxRemoveFailuresSeq == 2

\* ------------------------------------------------------ program constants
BATCH_SIZE == 10
CHUNK_SIZE == 10

Callers == {"A", "B"}
None == -1
SEP == 0
FailureText == <<-1>>
OutputFile == "output"

\* The max_pages arguments of the calls two threads make.
ExtractPages == {None, 1}
ExportPages == {1, CHUNK_SIZE + 1}

VARIABLES
  docPages,    \* number of pages of the PDF at pdf_path
  blank,       \* TRUE when OCR reads no text on any page of it
  is_running,  \* self.is_running
  disk,        \* temp_page_<N>.png files in output/: pairs <<N, writer>>, the
               \* writer being the caller whose current call wrote it, else "old"
  textFiles,   \* text files in output/: file name -> content
  pc,          \* per caller: the statement it is about to execute
  op,          \* per caller: the public operation it invoked
  call,        \* per caller: arguments and locals of extract_text_from_pdf
  conv,        \* per caller: arguments and locals of convert_to_text
  result,      \* per caller: how its last extract_text_from_pdf call ended
  hist,        \* per caller: what the current call asked of its collaborators
  faults,      \* os.remove failures so far
  calls        \* public operations invoked so far

vars == <<docPages, blank, is_running, disk, textFiles, pc, op, call, conv,
          result, hist, faults, calls>>

\* ---------------------------------------------------------------- helpers
Min(a, b) == IF a < b THEN a ELSE b

Max(a, b) == IF a > b THEN a ELSE b

Range(a, b) == [j \in 1..Max(0, b - a + 1) |-> a + j - 1]

RECURSIVE Join(_)
Join(ts) ==
  IF ts = <<>> THEN <<>>
  ELSE IF Len(ts) = 1 THEN ts[1]
  ELSE ts[1] \o <<SEP>> \o Join(Tail(ts))

RemoveFirst(s, x) ==
  LET hits == {j \in 1..Len(s) : s[j] = x}
  IN IF hits = {} THEN s
     ELSE LET n == CHOOSE j \in hits : \A m \in hits : j <= m
          IN [j \in 1..(Len(s) - 1) |-> IF j < n THEN s[j] ELSE s[j + 1]]

\* convert_from_path(pdf_path, first_page, last_page): the images of the pages
\* of the range that the document has.
ConvertFromPath(first, last) == Range(first, Min(last, docPages))

\* pytesseract.image_to_string(image)
OcrText(image) == IF blank THEN <<>> ELSE <<image>>

Exists(d, p) == \E f \in d : f[1] = p

Saved(d, p, c) == {f \in d : f[1] # p} \cup {<<p, c>>}

Removed(d, p) == {f \in d : f[1] # p}

\* EndPage with the batch one page too long.
EndPageOffByOne(batch_start, total_pages) == Min(batch_start + BATCH_SIZE, total_pages)

EndPage(batch_start, total_pages) == Min(batch_start + BATCH_SIZE - 1, total_pages)

NoCall ==
  [max_pages |-> None, start_page |-> 1, save_images |-> FALSE,
   total_pages |-> 0, batch_start |-> 0, page_images |-> <<>>, i |-> 0,
   extracted_text |-> <<>>, temp_image_paths |-> <<>>, k |-> 1, exc |-> "none"]

NoConv ==
  [max_pages |-> 0, start_page |-> 1, all_text |-> <<>>, chunk_number |-> 1,
   result |-> [kind |-> "none", value |-> <<>>]]

NoResult == [kind |-> "none", value |-> <<>>]

\* probe: how the page-1 probe ended; rasters: the batch requests <<first, last>>
\* made so far; timed: the index in rasters of the request that timed out;
\* failed: the paths whose os.remove in the final cleanup raised.
NoHist == [probe |-> "none", rasters |-> <<>>, timed |-> 0, failed |-> {}]

\* The files a caller wrote in earlier calls are not of its current call.
Disown(d, c) == {<<f[1], IF f[2] = c THEN "old" ELSE f[2]>> : f \in d}

\* ------------------------------------------------------------------- Init
InitWith(docs, blanks) ==
  /\ docPages \in docs
  /\ blank \in blanks
  /\ is_running = FALSE
  /\ disk = {}
  /\ textFiles = [n \in {} |-> <<>>]
  /\ pc = [c \in Callers |-> "idle"]
  /\ op = [c \in Callers |-> "none"]
  /\ call = [c \in Callers |-> NoCall]
  /\ conv = [c \in Callers |-> NoConv]
  /\ result = [c \in Callers |-> NoResult]
  /\ hist = [c \in Callers |-> NoHist]
  /\ faults = 0
  /\ calls = 0

Init == InitWith({MaxDocPages}, {FALSE})

InitSeq == InitWith(0..MaxDocPagesSeq, BOOLEAN)

\* ------------------------------------------------ extract_text_from_pdf

\* A caller invokes extract_text_from_pdf(pdf_path, max_pages, start_page, save_images).
CallExtract(c, mps, sps, maxc) ==
  /\ pc[c] = "idle"
  /\ calls < maxc
  /\ \E mp \in mps, sp \in sps, keep \in BOOLEAN :
       call' = [call EXCEPT ![c] = [NoCall EXCEPT !.max_pages = mp,
                                                  !.start_page = sp,
                                                  !.save_images = keep]]
  /\ op' = [op EXCEPT ![c] = "extract"]
  /\ pc' = [pc EXCEPT ![c] = "check"]
  /\ result' = [result EXCEPT ![c] = NoResult]
  /\ hist' = [hist EXCEPT ![c] = NoHist]
  /\ calls' = calls + 1
  /\ disk' = Disown(disk, c)
  /\ UNCHANGED <<docPages, blank, is_running, textFiles, conv, faults>>

\* if self.is_running: raise RuntimeError(...)
Check(c) ==
  /\ pc[c] = "check"
  /\ IF is_running
     THEN /\ result' = [result EXCEPT ![c] = [kind |-> "RuntimeError", value |-> <<>>]]
          /\ pc' = [pc EXCEPT ![c] = "ret"]
     ELSE /\ pc' = [pc EXCEPT ![c] = "set"]
          /\ UNCHANGED result
  /\ UNCHANGED <<docPages, blank, is_running, disk, textFiles, op, call, conv,
                 hist, faults, calls>>

\* self.is_running = True
SetRunning(c) ==
  /\ pc[c] = "set"
  /\ is_running' = TRUE
  /\ pc' = [pc EXCEPT ![c] = "exists"]
  /\ UNCHANGED <<docPages, blank, disk, textFiles, op, call, conv, result,
                 hist, faults, calls>>

\* if not os.path.exists(pdf_path): raise FileNotFoundError(...)
PathExists(c) ==
  /\ pc[c] = "exists"
  /\ \E found \in BOOLEAN :
       IF found
       THEN /\ pc' = [pc EXCEPT ![c] = "pages"]
            /\ call' = [call EXCEPT ![c].extracted_text = <<>>,
                                    ![c].temp_image_paths = <<>>]
       ELSE /\ pc' = [pc EXCEPT ![c] = "release"]
            /\ call' = [call EXCEPT ![c].exc = "FileNotFoundError"]
  /\ UNCHANGED <<docPages, blank, is_running, disk, textFiles, op, conv,
                 result, hist, faults, calls>>

\* The probe of page 1 raises: a timeout of future.result(timeout=10) or an
\* error of convert_from_path.
ProbeFails(c) ==
  /\ pc' = [pc EXCEPT ![c] = "except"]
  /\ \E timeout \in BOOLEAN :
       /\ call' = [call EXCEPT ![c].exc = IF timeout THEN "TimeoutError" ELSE "EngineError"]
       /\ hist' = [hist EXCEPT ![c].probe = IF timeout THEN "timeout" ELSE "error"]

\* The rasterization of a batch first..last raises: a timeout of
\* future.result(timeout=30) or an error of convert_from_path.
BatchFails(c, first, last) ==
  /\ pc' = [pc EXCEPT ![c] = "except"]
  /\ \E timeout \in BOOLEAN :
       /\ call' = [call EXCEPT ![c].exc = IF timeout THEN "TimeoutError" ELSE "EngineError"]
       /\ hist' = [hist EXCEPT
                     ![c].rasters = Append(@, <<first, last>>),
                     ![c].timed = IF timeout THEN Len(hist[c].rasters) + 1 ELSE @]

\* total_pages: the probe of page 1 when max_pages is None, else max_pages+start_page-1
DeterminePages(c) ==
  /\ pc[c] = "pages"
  /\ IF call[c].max_pages = None
     THEN \/ ProbeFails(c)
          \/ LET first_page == ConvertFromPath(1, 1)
             IN /\ hist' = [hist EXCEPT ![c].probe = "ok"]
                /\ IF first_page = <<>>
                   THEN /\ call' = [call EXCEPT ![c].exc = "CouldNotRead"]
                        /\ pc' = [pc EXCEPT ![c] = "except"]
                   ELSE /\ call' = [call EXCEPT
                                      ![c].total_pages = Len(first_page),
                                      ![c].batch_start = call[c].start_page]
                        /\ pc' = [pc EXCEPT ![c] = "batch"]
     ELSE /\ call' = [call EXCEPT
                        ![c].total_pages = call[c].max_pages + call[c].start_page - 1,
                        ![c].batch_start = call[c].start_page]
          /\ pc' = [pc EXCEPT ![c] = "batch"]
          /\ UNCHANGED hist
  /\ UNCHANGED <<docPages, blank, is_running, disk, textFiles, op, conv,
                 result, faults, calls>>

\* for batch_start in range(start_page, total_pages + 1, BATCH_SIZE): rasterize
Batch(c) ==
  /\ pc[c] = "batch"
  /\ IF call[c].batch_start > call[c].total_pages
     THEN /\ pc' = [pc EXCEPT ![c] = "finally"]
          /\ UNCHANGED <<call, hist>>
     ELSE LET end_page == EndPage(call[c].batch_start, call[c].total_pages)
              page_images == ConvertFromPath(call[c].batch_start, end_page)
          IN \/ BatchFails(c, call[c].batch_start, end_page)
             \/ /\ hist' = [hist EXCEPT
                              ![c].rasters = Append(@, <<call[c].batch_start, end_page>>)]
                /\ IF page_images = <<>>
                   THEN /\ call' = [call EXCEPT ![c].batch_start = @ + BATCH_SIZE]
                        /\ UNCHANGED pc
                   ELSE /\ call' = [call EXCEPT ![c].page_images = page_images,
                                                ![c].i = 0]
                        /\ pc' = [pc EXCEPT ![c] = "save"]
  /\ UNCHANGED <<docPages, blank, is_running, disk, textFiles, op, conv,
                 result, faults, calls>>

PageNum(c) == call[c].batch_start + call[c].i

\* image.save(temp_image_path); temp_image_paths.append(temp_image_path)
\* A save that raises leaves no new file and the path is not recorded.
\* What it raises may be a TimeoutError (an OSError), which the except clause
\* of line 89 catches like a timeout of the rasterization.
SaveImage(c) ==
  /\ pc[c] = "save"
  /\ \/ /\ disk' = Saved(disk, PageNum(c), c)
        /\ call' = [call EXCEPT ![c].temp_image_paths = Append(@, PageNum(c))]
        /\ pc' = [pc EXCEPT ![c] = "ocr"]
     \/ /\ \E raised \in {"EngineError", "TimeoutError"} :
             call' = [call EXCEPT ![c].exc = raised]
        /\ pc' = [pc EXCEPT ![c] = "except"]
        /\ UNCHANGED disk
  /\ UNCHANGED <<docPages, blank, is_running, textFiles, op, conv, result,
                 hist, faults, calls>>

\* text = pytesseract.image_to_string(image, ...); extracted_text.append(text)
\* What it raises may be a TimeoutError, caught by the except clause of line 89.
Ocr(c) ==
  /\ pc[c] = "ocr"
  /\ \/ /\ call' = [call EXCEPT ![c].extracted_text =
                      Append(@, OcrText(call[c].page_images[call[c].i + 1]))]
        /\ pc' = [pc EXCEPT ![c] = "rm_check"]
     \/ /\ \E raised \in {"EngineError", "TimeoutError"} :
             call' = [call EXCEPT ![c].exc = raised]
        /\ pc' = [pc EXCEPT ![c] = "except"]
  /\ UNCHANGED <<docPages, blank, is_running, disk, textFiles, op, conv,
                 result, hist, faults, calls>>

\* The next image of the batch, or the next batch.
NextPage(c, paths) ==
  IF call[c].i + 1 < Len(call[c].page_images)
  THEN /\ call' = [call EXCEPT ![c].i = @ + 1, ![c].temp_image_paths = paths]
       /\ pc' = [pc EXCEPT ![c] = "save"]
  ELSE /\ call' = [call EXCEPT ![c].batch_start = @ + BATCH_SIZE,
                               ![c].temp_image_paths = paths]
       /\ pc' = [pc EXCEPT ![c] = "batch"]

\* if not save_images and os.path.exists(temp_image_path):
RemoveCheck(c) ==
  /\ pc[c] = "rm_check"
  /\ IF ~call[c].save_images /\ Exists(disk, PageNum(c))
     THEN /\ pc' = [pc EXCEPT ![c] = "rm"]
          /\ UNCHANGED call
     ELSE NextPage(c, call[c].temp_image_paths)
  /\ UNCHANGED <<docPages, blank, is_running, disk, textFiles, op, conv,
                 result, hist, faults, calls>>

\* try: os.remove(temp_image_path); temp_image_paths.remove(temp_image_path)
\* except Exception: print(...)
Remove(c, maxf) ==
  /\ pc[c] = "rm"
  /\ IF ~Exists(disk, PageNum(c))
     THEN /\ NextPage(c, call[c].temp_image_paths)
          /\ UNCHANGED <<disk, faults>>
     ELSE \/ /\ disk' = Removed(disk, PageNum(c))
             /\ NextPage(c, RemoveFirst(call[c].temp_image_paths, PageNum(c)))
             /\ UNCHANGED faults
          \/ /\ faults < maxf
             /\ faults' = faults + 1
             /\ NextPage(c, call[c].temp_image_paths)
             /\ UNCHANGED disk
  /\ UNCHANGED <<docPages, blank, is_running, textFiles, op, conv, result,
                 hist, calls>>

\* Except with the timeout logged and swallowed: the pages read so far are returned.
ExceptSwallowsTimeout(c) ==
  /\ pc[c] = "except"
  /\ call' = [call EXCEPT ![c].exc = IF @ = "TimeoutError" THEN "none" ELSE @]
  /\ pc' = [pc EXCEPT ![c] = "finally"]
  /\ UNCHANGED <<docPages, blank, is_running, disk, textFiles, op, conv,
                 result, hist, faults, calls>>

\* TimeoutError is concurrent.futures.TimeoutError (line 5), which is the builtin
\* TimeoutError: one raised by image.save or by OCR is converted like a timeout
\* of future.result.
\* except TimeoutError: raise Exception("PDF processing timed out ...")
\* except Exception: raise
Except(c) ==
  /\ pc[c] = "except"
  /\ call' = [call EXCEPT ![c].exc = IF @ = "TimeoutError" THEN "TimedOut" ELSE @]
  /\ pc' = [pc EXCEPT ![c] = "finally"]
  /\ UNCHANGED <<docPages, blank, is_running, disk, textFiles, op, conv,
                 result, hist, faults, calls>>

\* Finally with the cleanup run only after a normal end of the loop.
FinallySkipsOnError(c) ==
  /\ pc[c] = "finally"
  /\ IF call[c].save_images \/ call[c].exc # "none"
        \/ call[c].k > Len(call[c].temp_image_paths)
     THEN /\ pc' = [pc EXCEPT ![c] = "release"]
          /\ UNCHANGED call
     ELSE IF Exists(disk, call[c].temp_image_paths[call[c].k])
          THEN /\ pc' = [pc EXCEPT ![c] = "fin_rm"]
               /\ UNCHANGED call
          ELSE /\ call' = [call EXCEPT ![c].k = @ + 1]
               /\ UNCHANGED pc
  /\ UNCHANGED <<docPages, blank, is_running, disk, textFiles, op, conv,
                 result, hist, faults, calls>>

\* finally: if not save_images: for temp_path in temp_image_paths:
\*            if os.path.exists(temp_path):
Finally(c) ==
  /\ pc[c] = "finally"
  /\ IF call[c].save_images \/ call[c].k > Len(call[c].temp_image_paths)
     THEN /\ pc' = [pc EXCEPT ![c] = "release"]
          /\ UNCHANGED call
     ELSE IF Exists(disk, call[c].temp_image_paths[call[c].k])
          THEN /\ pc' = [pc EXCEPT ![c] = "fin_rm"]
               /\ UNCHANGED call
          ELSE /\ call' = [call EXCEPT ![c].k = @ + 1]
               /\ UNCHANGED pc
  /\ UNCHANGED <<docPages, blank, is_running, disk, textFiles, op, conv,
                 result, hist, faults, calls>>

\* try: os.remove(temp_path) except Exception: print(...)
FinallyRemove(c, maxf) ==
  /\ pc[c] = "fin_rm"
  /\ LET temp_path == call[c].temp_image_paths[call[c].k]
     IN IF ~Exists(disk, temp_path)
        THEN UNCHANGED <<disk, hist, faults>>
        ELSE \/ /\ disk' = Removed(disk, temp_path)
                /\ UNCHANGED <<hist, faults>>
             \/ /\ faults < maxf
                /\ faults' = faults + 1
                /\ hist' = [hist EXCEPT ![c].failed = @ \cup {temp_path}]
                /\ UNCHANGED disk
  /\ call' = [call EXCEPT ![c].k = @ + 1]
  /\ pc' = [pc EXCEPT ![c] = "finally"]
  /\ UNCHANGED <<docPages, blank, is_running, textFiles, op, conv, result, calls>>

ReleaseResult(c) ==
  IF call[c].exc = "none"
  THEN [kind |-> "ok", value |-> call[c].extracted_text]
  ELSE [kind |-> call[c].exc, value |-> <<>>]

\* Release with the flag reset on the normal return only.
ReleaseOnlyOnSuccess(c) ==
  /\ pc[c] = "release"
  /\ is_running' = (call[c].exc # "none")
  /\ result' = [result EXCEPT ![c] = ReleaseResult(c)]
  /\ pc' = [pc EXCEPT ![c] = "ret"]
  /\ UNCHANGED <<docPages, blank, disk, textFiles, op, call, conv, hist,
                 faults, calls>>

\* Release with the flag kept by a chunk of convert_to_text.
ReleaseHeldByExport(c) ==
  /\ pc[c] = "release"
  /\ is_running' = (op[c] = "export")
  /\ result' = [result EXCEPT ![c] = ReleaseResult(c)]
  /\ pc' = [pc EXCEPT ![c] = "ret"]
  /\ UNCHANGED <<docPages, blank, disk, textFiles, op, call, conv, hist,
                 faults, calls>>

\* return extracted_text / the exception leaves; finally: self.is_running = False
Release(c) ==
  /\ pc[c] = "release"
  /\ is_running' = FALSE
  /\ result' = [result EXCEPT ![c] = ReleaseResult(c)]
  /\ pc' = [pc EXCEPT ![c] = "ret"]
  /\ UNCHANGED <<docPages, blank, disk, textFiles, op, call, conv, hist,
                 faults, calls>>

\* The caller of extract_text_from_pdf has its list or its exception.
Finish(c) ==
  /\ pc[c] = "ret"
  /\ op[c] = "extract"
  /\ pc' = [pc EXCEPT ![c] = "idle"]
  /\ op' = [op EXCEPT ![c] = "none"]
  /\ call' = [call EXCEPT ![c] = NoCall]
  /\ result' = [result EXCEPT ![c] = NoResult]
  /\ hist' = [hist EXCEPT ![c] = NoHist]
  /\ UNCHANGED <<docPages, blank, is_running, disk, textFiles, conv, faults, calls>>

\* --------------------------------------------------------- convert_to_text

\* A caller invokes convert_to_text(pdf_path, max_pages).
CallConvert(c, ns, maxc) ==
  /\ pc[c] = "idle"
  /\ calls < maxc
  /\ \E n \in ns : conv' = [conv EXCEPT ![c] = [NoConv EXCEPT !.max_pages = n]]
  /\ op' = [op EXCEPT ![c] = "export"]
  /\ pc' = [pc EXCEPT ![c] = "conv_loop"]
  /\ calls' = calls + 1
  /\ UNCHANGED <<docPages, blank, is_running, disk, textFiles, call, result,
                 hist, faults>>

\* for start_page in range(1, max_pages + 1, CHUNK_SIZE):
\*   self.get_text_from_pdf(pdf_path, max_pages=CHUNK_SIZE, start_page=start_page)
ConvertLoop(c) ==
  /\ pc[c] = "conv_loop"
  /\ IF conv[c].start_page > conv[c].max_pages
     THEN /\ pc' = [pc EXCEPT ![c] = "conv_end"]
          /\ UNCHANGED <<call, result, hist, disk>>
     ELSE /\ call' = [call EXCEPT ![c] = [NoCall EXCEPT !.max_pages = CHUNK_SIZE,
                                                        !.start_page = conv[c].start_page]]
          /\ result' = [result EXCEPT ![c] = NoResult]
          /\ hist' = [hist EXCEPT ![c] = NoHist]
          /\ pc' = [pc EXCEPT ![c] = "check"]
          /\ disk' = Disown(disk, c)
  /\ UNCHANGED <<docPages, blank, is_running, textFiles, op, conv, faults, calls>>

\* get_text_from_pdf returns "\n\n".join(text_list); all_text.append(chunk_text);
\* chunk_number += 1.  An exception of the chunk leaves convert_to_text.
ChunkReturn(c) ==
  /\ pc[c] = "ret"
  /\ op[c] = "export"
  /\ IF result[c].kind = "ok"
     THEN /\ conv' = [conv EXCEPT ![c].all_text = Append(@, Join(result[c].value)),
                                  ![c].chunk_number = @ + 1,
                                  ![c].start_page = @ + CHUNK_SIZE]
          /\ pc' = [pc EXCEPT ![c] = "conv_loop"]
     ELSE /\ conv' = [conv EXCEPT ![c].result = [kind |-> result[c].kind, value |-> <<>>]]
          /\ pc' = [pc EXCEPT ![c] = "conv_ret"]
  /\ UNCHANGED <<docPages, blank, is_running, disk, textFiles, op, call,
                 result, hist, faults, calls>>

\* open(output_path, "w"): the file is created or emptied, or the open raises
\* (no output directory).
OpenOutput(c) ==
  \/ /\ textFiles' = (OutputFile :> <<>>) @@ textFiles
     /\ pc' = [pc EXCEPT ![c] = "conv_write"]
     /\ UNCHANGED conv
  \/ /\ conv' = [conv EXCEPT ![c].result = [kind |-> "FileNotFoundError", value |-> <<>>]]
     /\ pc' = [pc EXCEPT ![c] = "conv_ret"]
     /\ UNCHANGED textFiles

\* ConvertEnd with the failure test on the joined text instead of the list.
ConvertEndTestsText(c) ==
  /\ pc[c] = "conv_end"
  /\ IF Join(conv[c].all_text) = <<>>
     THEN /\ conv' = [conv EXCEPT ![c].result = [kind |-> "ok", value |-> FailureText]]
          /\ pc' = [pc EXCEPT ![c] = "conv_ret"]
          /\ UNCHANGED textFiles
     ELSE OpenOutput(c)
  /\ UNCHANGED <<docPages, blank, is_running, disk, op, call, result, hist,
                 faults, calls>>

\* if not all_text: return "Failed to generate study guide."
\* final_text = "\n\n".join(all_text); with open(output_path, "w") as f:
ConvertEnd(c) ==
  /\ pc[c] = "conv_end"
  /\ IF conv[c].all_text = <<>>
     THEN /\ conv' = [conv EXCEPT ![c].result = [kind |-> "ok", value |-> FailureText]]
          /\ pc' = [pc EXCEPT ![c] = "conv_ret"]
          /\ UNCHANGED textFiles
     ELSE OpenOutput(c)
  /\ UNCHANGED <<docPages, blank, is_running, disk, op, call, result, hist,
                 faults, calls>>

\* A text written from the start of a file over its content, which it replaces
\* as far as it reaches.
Overlay(old, text) == text \o SubSeq(old, Len(text) + 1, Len(old))

\* f.write(final_text) and the close of the file, which writes the buffered
\* text from the start of the file; return final_text
ConvertWrite(c) ==
  /\ pc[c] = "conv_write"
  /\ LET final_text == Join(conv[c].all_text)
     IN /\ textFiles' = (OutputFile :> Overlay(textFiles[OutputFile], final_text)) @@ textFiles
        /\ conv' = [conv EXCEPT ![c].result = [kind |-> "ok", value |-> final_text]]
  /\ pc' = [pc EXCEPT ![c] = "conv_ret"]
  /\ UNCHANGED <<docPages, blank, is_running, disk, op, call, result, hist,
                 faults, calls>>

\* The caller of convert_to_text has its text or its exception.
ConvertFinish(c) ==
  /\ pc[c] = "conv_ret"
  /\ pc' = [pc EXCEPT ![c] = "idle"]
  /\ op' = [op EXCEPT ![c] = "none"]
  /\ call' = [call EXCEPT ![c] = NoCall]
  /\ conv' = [conv EXCEPT ![c] = NoConv]
  /\ result' = [result EXCEPT ![c] = NoResult]
  /\ hist' = [hist EXCEPT ![c] = NoHist]
  /\ UNCHANGED <<docPages, blank, is_running, disk, textFiles, faults, calls>>

\* ------------------------------------------------------- specifications
Steps(c, maxf) ==
  \/ Check(c) \/ SetRunning(c) \/ PathExists(c) \/ DeterminePages(c)
  \/ Batch(c) \/ SaveImage(c) \/ Ocr(c) \/ RemoveCheck(c) \/ Remove(c, maxf)
  \/ Except(c) \/ Finally(c) \/ FinallyRemove(c, maxf) \/ Release(c)
  \/ ConvertLoop(c) \/ ChunkReturn(c) \/ ConvertEnd(c) \/ ConvertWrite(c)

\* Two threads share the extractor.
Next ==
  \E c \in Callers :
    \/ CallExtract(c, ExtractPages, {1}, MaxCalls)
    \/ CallConvert(c, ExportPages, MaxCalls)
    \/ Steps(c, MaxRemoveFailures)
    \/ Finish(c)
    \/ ConvertFinish(c)

Spec == Init /\ [][Next]_vars

\* One thread invokes one operation, on documents of more than one batch.
NextSeq ==
  \/ CallExtract("A", {None} \cup (0..MaxPagesArgSeq), 1..MaxStartPageSeq, 1)
  \/ CallConvert("A", 0..MaxPagesArgSeq, 1)
  \/ Steps("A", MaxRemoveFailuresSeq)

SpecSeq == InitSeq /\ [][NextSeq]_vars

\* ------------------------------------------------------------- properties
BodyPcs == {"pages", "batch", "save", "ocr", "rm_check", "rm", "except", "finally", "fin_rm"}

\* The caller is inside the processing body of extract_text_from_pdf.
InBody(c) == pc[c] \in BodyPcs

\* The caller has set the busy flag and not yet reached the end of the outer finally.
InFlight(c) == pc[c] \in BodyPcs \cup {"exists", "release"}

\* The pages whose temporary image, written by the caller's current call, is on disk.
TempFilesOf(c) == {f[1] : f \in {g \in disk : g[2] = c}}

\* The images the batch requests rs yield, in the order of the requests.
RECURSIVE Produced(_)
Produced(rs) ==
  IF rs = <<>> THEN <<>>
  ELSE ConvertFromPath(rs[1][1], rs[1][2]) \o Produced(Tail(rs))

\* A rasterization of the caller's current call timed out.
TimedOutCall(c) == hist[c].probe = "timeout" \/ hist[c].timed > 0

CeilDiv(a, b) == (a + b - 1) \div b

Separators(n) == [j \in 1..Max(0, n) |-> SEP]

AllEmpty(ts) == \A j \in 1..Len(ts) : ts[j] = <<>>

\* C1: of two callers on the same extractor, one that starts while the other is
\* in flight is rejected, so the two are never both inside the processing body.
C1_OneCallInBody ==
  \A c, d \in Callers : c # d => ~(InBody(c) /\ InBody(d))

\* C2 as stated: when a call with save_images=False has ended, normally or by an
\* exception, no temporary image that it wrote is on disk.
C2_NoTempFileLeft ==
  \A c \in Callers :
    (pc[c] = "ret" /\ ~call[c].save_images) => TempFilesOf(c) = {}

\* C2 amended: when a call with save_images=False has ended, normally or by an
\* exception, every temporary image it wrote and that is still on disk is one
\* whose os.remove in the final cleanup raised.
C2_TempFilesLeftFailedRemoval ==
  \A c \in Callers :
    (pc[c] = "ret" /\ ~call[c].save_images) => TempFilesOf(c) \subseteq hist[c].failed

\* A call with save_images=False ended by an exception of OCR or of a later
\* step with a temporary image written and not yet removed, and the final
\* cleanup removed it.
C2_Witness ==
  \E c \in Callers :
    /\ pc[c] = "ret"
    /\ ~call[c].save_images
    /\ result[c].kind = "EngineError"
    /\ call[c].temp_image_paths # <<>>
    /\ hist[c].failed = {}
    /\ TempFilesOf(c) = {}

\* C3: convert_to_text with max_pages = N >= 1 writes ceil(N/10) chunk files and
\* then the combined file, whose content is the chunk texts joined by the
\* separator and is the value returned.
C3_ChunkFilesWritten ==
  \A c \in Callers :
    (pc[c] = "conv_ret" /\ conv[c].result.kind = "ok" /\ conv[c].max_pages >= 1) =>
      /\ Cardinality(DOMAIN textFiles \ {OutputFile}) = CeilDiv(conv[c].max_pages, CHUNK_SIZE)
      /\ OutputFile \in DOMAIN textFiles
      /\ textFiles[OutputFile] = Join(conv[c].all_text)
      /\ conv[c].result.value = Join(conv[c].all_text)

\* C4 as stated: when every chunk yields the empty text, convert_to_text returns
\* the failure text and the combined file holds the separators only.
C4_FailureTextOnEmptyChunks ==
  \A c \in Callers :
    (pc[c] = "conv_ret" /\ conv[c].result.kind = "ok"
       /\ conv[c].all_text # <<>> /\ AllEmpty(conv[c].all_text)) =>
      /\ conv[c].result.value = FailureText
      /\ OutputFile \in DOMAIN textFiles
      /\ textFiles[OutputFile] = Separators(Len(conv[c].all_text) - 1)

\* C4 amended: when at least one chunk was processed, convert_to_text writes the
\* chunk texts joined by the separator to the combined file and returns them,
\* which is the separators only when every chunk yields the empty text; it
\* returns the failure text, and writes no file, only when no chunk was processed.
C4_EmptyChunksReturnSeparators ==
  \A c \in Callers :
    (pc[c] = "conv_ret" /\ conv[c].result.kind = "ok") =>
      IF conv[c].all_text = <<>>
      THEN /\ conv[c].max_pages < 1
           /\ conv[c].result.value = FailureText
           /\ OutputFile \notin DOMAIN textFiles
      ELSE /\ conv[c].result.value # FailureText
           /\ conv[c].result.value = Join(conv[c].all_text)
           /\ OutputFile \in DOMAIN textFiles
           /\ textFiles[OutputFile] = conv[c].result.value
           /\ AllEmpty(conv[c].all_text) =>
                conv[c].result.value = Separators(Len(conv[c].all_text) - 1)

\* convert_to_text returned after two chunks that both yielded the empty text.
C4_Witness ==
  \E c \in Callers :
    /\ pc[c] = "conv_ret"
    /\ conv[c].result.kind = "ok"
    /\ Len(conv[c].all_text) = 2
    /\ AllEmpty(conv[c].all_text)
    /\ conv[c].result.value = <<SEP>>

\* C5: every admitted call resets the busy flag when it exits, on every exit
\* path, so the flag is never set while no call is in flight.
C5_FlagReleasedOnExit ==
  (\A c \in Callers : ~InFlight(c)) => ~is_running

\* An admitted call has exited by the timeout exception, no call is in flight
\* and the flag is reset.
C5_Witness ==
  \E c \in Callers :
    /\ pc[c] = "ret"
    /\ result[c].kind = "TimedOut"
    /\ \A d \in Callers : ~InFlight(d)
    /\ ~is_running

\* C6 as stated: from the entry of convert_to_text to its return the busy flag is set.
C6_BusyThroughoutExport ==
  \A c \in Callers :
    (op[c] = "export" /\ pc[c] # "idle") => is_running

\* C6 amended: the busy flag is held by each chunk's extract_text_from_pdf call
\* only, so a call that another caller starts while convert_to_text is between
\* two chunks, no call being in flight, is admitted.
C6_AdmittedBetweenChunks ==
  [][\A c, d \in Callers :
       (/\ c # d
        /\ op[c] = "export"
        /\ pc[c] = "conv_loop"
        /\ \A e \in Callers : ~InFlight(e)
        /\ pc[d] = "check"
        /\ pc'[d] # "check") => pc'[d] = "set"]_vars

\* convert_to_text is between its first and its second chunk and the other
\* caller is inside the processing body.
C6_Witness ==
  \E c, d \in Callers :
    /\ c # d
    /\ op[c] = "export"
    /\ pc[c] = "conv_loop"
    /\ conv[c].chunk_number = 2
    /\ conv[c].start_page <= conv[c].max_pages
    /\ InBody(d)

\* C7: a call that returns normally returns the OCR texts of the images that its
\* batch requests yielded, in order, and these are the pages of
\* start_page..total_pages that the document has, ascending.
C7_TextsInPageOrder ==
  \A c \in Callers :
    (pc[c] = "ret" /\ result[c].kind = "ok") =>
      LET pages == Produced(hist[c].rasters)
      IN /\ pages = Range(call[c].start_page, Min(call[c].total_pages, docPages))
         /\ result[c].value = [j \in 1..Len(pages) |-> OcrText(pages[j])]

\* A call returned the texts of more pages than one batch holds.
C7_Witness ==
  \E c \in Callers :
    /\ pc[c] = "ret"
    /\ result[c].kind = "ok"
    /\ ~blank
    /\ Len(result[c].value) > BATCH_SIZE
    /\ Len(hist[c].rasters) > 1

\* C8: the k-th chunk of convert_to_text with max_pages = N asks the rasterizer
\* for the pages 10(k-1)+1 .. min(10k, N) and for no page above N.
C8_ChunkWithinMaxPages ==
  \A c \in Callers :
    (op[c] = "export" /\ InFlight(c)) =>
      \A j \in 1..Len(hist[c].rasters) :
        /\ hist[c].rasters[j][1] = CHUNK_SIZE * (conv[c].chunk_number - 1) + 1
        /\ hist[c].rasters[j][2] = Min(CHUNK_SIZE * conv[c].chunk_number, conv[c].max_pages)

\* C9: the last page processed is the document's page count when max_pages is
\* None and start_page + max_pages - 1 otherwise, so with max_pages None every
\* page from start_page to the last page of the document is read.
C9_UpperBoundIsPageCount ==
  \A c \in Callers :
    (pc[c] = "ret" /\ result[c].kind = "ok") =>
      /\ call[c].total_pages = IF call[c].max_pages = None THEN docPages
                               ELSE call[c].start_page + call[c].max_pages - 1
      /\ call[c].max_pages = None =>
           Len(result[c].value) = Max(0, docPages - call[c].start_page + 1)

\* C10 as stated: a call in which a rasterization timed out ends with the
\* processing error and no list, makes no rasterization request after the one
\* that timed out, and with save_images=False leaves none of its temporary
\* images on disk; the busy flag is reset.
C10_TimeoutAbortsAndCleans ==
  \A c \in Callers :
    (pc[c] = "ret" /\ TimedOutCall(c)) =>
      /\ result[c] = [kind |-> "TimedOut", value |-> <<>>]
      /\ IF hist[c].probe = "timeout" THEN hist[c].rasters = <<>>
                                      ELSE hist[c].timed = Len(hist[c].rasters)
      /\ Len(call[c].extracted_text) = Len(Produced(SubSeq(hist[c].rasters, 1, hist[c].timed - 1)))
      /\ ~call[c].save_images => TempFilesOf(c) = {}
      /\ ~is_running

\* C10 amended: as stated, except that with save_images=False the temporary
\* images of the call still on disk are those whose os.remove in the final
\* cleanup raised.
C10_TimeoutAbortsCleansUnlessRemoveFails ==
  \A c \in Callers :
    (pc[c] = "ret" /\ TimedOutCall(c)) =>
      /\ result[c] = [kind |-> "TimedOut", value |-> <<>>]
      /\ IF hist[c].probe = "timeout" THEN hist[c].rasters = <<>>
                                      ELSE hist[c].timed = Len(hist[c].rasters)
      /\ Len(call[c].extracted_text) = Len(Produced(SubSeq(hist[c].rasters, 1, hist[c].timed - 1)))
      /\ ~call[c].save_images => TempFilesOf(c) \subseteq hist[c].failed
      /\ ~is_running

\* The second batch of a call with save_images=False timed out after the pages
\* of the first were read; the call ended with the processing error and none
\* of its temporary images on disk.
C10_Witness ==
  \E c \in Callers :
    /\ pc[c] = "ret"
    /\ hist[c].timed = 2
    /\ ~call[c].save_images
    /\ Len(call[c].extracted_text) = BATCH_SIZE
    /\ result[c].kind = "TimedOut"
    /\ TempFilesOf(c) = {}
    /\ ~is_running

====
